---- MODULE Spec2Model ----
(***************************************************************************)
(* Conversation arbitrator of spanreed (src/spanreed/apis/telegram_bot.py): *)
(* UserInteraction leases, the per-user priority queues, the running slot  *)
(* and the per-user asyncio.Lock, for one user.                            *)
(*                                                                         *)
(* Scheduling model.  All tasks run on one asyncio event loop.  A task     *)
(* runs without interruption until it awaits something that is not ready.  *)
(* get_application() awaits an Event that is set once the bot is up, so    *)
(* the helper coroutines (_get_user_interaction_queues, ...) never         *)
(* suspend: the code from the call of user_interaction to wait_to_run, and *)
(* the whole finally block, each run as one step.  A task suspends in      *)
(* Event.wait (pc "waiting"), in Lock.acquire (pc "lockwait") and inside   *)
(* the body of the lease (pc "body").  Task.cancel() marks the task; the   *)
(* CancelledError is raised in the task when the loop resumes it.          *)
(***************************************************************************)
EXTENDS Naturals, Sequences, FiniteSets

\* ------------------------------------------------------------------ bounds
NumTasks == 3
MaxExternalCancels == 1
NumCalls == 2
MaxResponses == 2
NumProgressCalls == 1
NumPrompts == 2
MaxRedisplays == 1
MaxReplies == 2
NumUsers == 2

\* ------------------------------------------------- UserInteractionPriority
HIGH == 1
NORMAL == 2
LOW == 3
UserInteractionPriority == {HIGH, NORMAL, LOW}

\* Each task calls user_interaction once; tasks are numbered in the order of
\* their calls, and the UserInteraction of task t is identified with t.
Tasks == 1..NumTasks

\* The users, each identified with its telegram_user_id.
Users == 1..NumUsers
None == 0

\* ------------------------------------------- ObsidianApi._send_request
\* `max_attempts = 3` in _send_request.
max_attempts == 3

\* Each call of _send_request is made on its own ObsidianApi object for the
\* same user; calls are numbered in the order they are made.
Calls == 1..NumCalls

\* The calls whose progress task is followed step by step.
ProgressCalls == 1..NumProgressCalls

\* uuid.uuid4().int never repeats: the request id drawn for attempt k of call
\* c is the number (c - 1) * max_attempts + k.
RequestIds == 1..(NumCalls * max_attempts)

\* ------------------------------------------- correlation registry
\* Each call of request_user_choice or request_user_input draws a fresh
\* callback_id (uuid.uuid4().int): the prompts are numbered in the order of
\* their calls and the callback_id of prompt p is p.
Prompts == 1..NumPrompts

\* callback_data.position of a button of the keyboard (two choices).
Positions == {0, 1}

\* update.message.text of a text message of the user (two different texts).
Texts == {1, 2}

VARIABLES
    queues,       \* bot_data[USER_INTERACTION_QUEUES][user]: priority -> list of leases
    current,      \* bot_data[CURRENT_USER_INTERACTION][user]: a lease or None
    priority,     \* UserInteraction.priority
    propagate,    \* the propagate_preemption argument of the call
    event,        \* UserInteraction.event is set
    running,      \* UserInteraction.running
    preempted,    \* UserInteraction.preempted
    pc,           \* where each task is: idle, waiting, lockwait, body, done
    mustCancel,   \* a CancelledError is due at the task's next resumption
    numCancels,   \* Task.cancelling(): cancel() calls not undone by uncancel()
    outcome,      \* how user_interaction ended for the task
    locked,       \* asyncio.Lock._locked
    lockWaiters,  \* asyncio.Lock._waiters, in order
    lockWoken,    \* the waiters whose future release() has completed
    grantOrder,   \* history: leases in the order they were put in the running slot
    preemptLog,   \* history: the preemption action of the last step, or NoPreempt
    extCancels,   \* number of external cancel() calls so far (bounded)
    interruptedBy,\* history: what made the first cancel() call on the task
    task,         \* UserInteraction.task: the task that created the lease
    user_id,      \* UserInteraction.user_id: the user the lease was created for
    user_interaction_queues,  \* bot_data[USER_INTERACTION_QUEUES]: user -> tier -> leases
    current_user_interaction, \* bot_data[CURRENT_USER_INTERACTION]: user -> lease or None
    user_interaction_locks,   \* bot_data[USER_INTERACTION_LOCKS]: user -> the lock is held
    rpcPc,        \* where each _send_request call is: idle, wait, retry, notify, done
    attempt,      \* the loop variable `attempt` of the call
    request_id,   \* the request_id of the call's current attempt
    pushed,       \* history: the request ids the call has pushed, in order
    outbound,     \* the Redis list obsidian-plugin-tasks:{user.id}, head first
    taken,        \* requests the companion has popped and not yet answered
    responseQ,    \* the Redis lists obsidian-plugin-tasks:{user.id}:{request_id}
    response,     \* the `response` variable of the call: <<>> or <<r>>
    rpcOutcome,   \* how the call ended: the value returned or the error raised
    notices,      \* number of chat messages the call has delivered
    progress,     \* the call's latest progress task: none, waiting, sending, cancelled
    progress_message, \* self._progress_message: index in messages, or None
    messages,     \* the progress messages Telegram has got for the call, in order
    callback_events,          \* bot_data[CALLBACK_EVENTS]: absent, clear or set per id
    callback_event_results,   \* bot_data[CALLBACK_EVENT_RESULTS]: a value or NoResult
    user_message_callback_id, \* bot_data[USER_MESSAGE_CALLBACK_ID][user]: an id or None
    promptKind,   \* which request made the prompt: none, choice (buttons), input (text)
    waitPc,       \* where wait_for_user_interaction is: idle, send, wait, expired,
                  \* cancelling, final, done
    message,      \* the local `message`: index in prompt_messages of the prompt, or None
    pending_message,  \* the local `pending_message` is not None
    pending_notices,  \* the pending-interactions notices sent for the id: is it displayed
    prompt_messages,  \* the prompt messages sent for the id, in order: is it displayed
    waitOutcome,  \* how wait_for_user_interaction ended: value returned or error raised
    redisplays,   \* number of expiries of the re-display interval so far (bounded)
    callback_queries, \* button taps Telegram has passed on and the bot has not handled
    numReplies,   \* number of replies (taps and texts) of the user so far (bounded)
    replies,      \* history: the replies handled, each with the id it was stored under
    handled,      \* history: the last update handled: the id it was stored under, whether
                  \* the handler raised, and how the wait of the button's prompt had ended
    cancelledDisplayed \* history: the waiter was cancelled while its prompt was displayed

arbVars == <<queues, current, priority, propagate, event, running, preempted,
             pc, mustCancel, numCancels, outcome, locked, lockWaiters, lockWoken,
             grantOrder, preemptLog, extCancels, interruptedBy, task, user_id,
             user_interaction_queues, current_user_interaction,
             user_interaction_locks>>

\* The arbitrator's dictionaries keyed by user, used where several users act.
perUserVars == <<user_id, user_interaction_queues, current_user_interaction,
                 user_interaction_locks>>

progVars == <<progress, progress_message, messages>>

rpcVars == <<rpcPc, attempt, request_id, pushed, outbound, taken,
             responseQ, response, rpcOutcome, notices, progVars>>

regVars == <<callback_events, callback_event_results, user_message_callback_id,
             promptKind, waitPc, message, pending_message, pending_notices,
             prompt_messages,
             waitOutcome, redisplays, callback_queries, numReplies, replies,
             handled, cancelledDisplayed>>

vars == <<arbVars, rpcVars, regVars>>

NoPreempt == [kind |-> "none", lease |-> None, by |-> None]

NoOutcome == [kind |-> "none", value |-> <<>>]

\* No entry for the id in bot_data[CALLBACK_EVENT_RESULTS].
NoResult == [type |-> "none", value |-> 0]

\* The values a handler stores: a button position (int) or a text (str).
ResultValues == [type : {"int"}, value : Positions] \cup [type : {"str"}, value : Texts]

NoWaitOutcome == [kind |-> "none", value |-> NoResult]

NotHandled == [n |-> 0, id |-> None, error |-> "none", after |-> "none"]

\* ------------------------------------------------------------------ helpers
Range(s) == {s[i] : i \in 1..Len(s)}

Queued == UNION {Range(queues[p]) : p \in UserInteractionPriority}

AllEmpty(q) == \A p \in UserInteractionPriority : q[p] = <<>>

FirstIndex(s, x) == CHOOSE i \in 1..Len(s) : s[i] = x /\ \A j \in 1..(i - 1) : s[j] # x

RemoveAt(s, i) == SubSeq(s, 1, i - 1) \o SubSeq(s, i + 1, Len(s))

\* The arbitrator's data as one value, so that the statements of a handler
\* can be applied one after the other within a step.
Arb == [queues |-> queues, current |-> current, priority |-> priority,
        event |-> event, running |-> running, preempted |-> preempted,
        mustCancel |-> mustCancel, numCancels |-> numCancels,
        finished |-> {t \in Tasks : pc[t] = "done"},
        grantOrder |-> grantOrder, preemptLog |-> NoPreempt, task |-> task]

TypeOK ==
    /\ queues \in [UserInteractionPriority -> Seq(Tasks)]
    /\ current \in Tasks \cup {None}
    /\ priority \in [Tasks -> UserInteractionPriority]
    /\ propagate \in [Tasks -> BOOLEAN]
    /\ event \in [Tasks -> BOOLEAN]
    /\ running \in [Tasks -> BOOLEAN]
    /\ preempted \in [Tasks -> BOOLEAN]
    /\ pc \in [Tasks -> {"idle", "waiting", "lockwait", "body", "done"}]
    /\ mustCancel \in [Tasks -> BOOLEAN]
    /\ numCancels \in [Tasks -> Nat]
    /\ outcome \in [Tasks -> {"none", "returned", "error", "cancelled", "preempted"}]
    /\ locked \in BOOLEAN
    /\ lockWaiters \in Seq(Tasks)
    /\ lockWoken \subseteq Tasks
    /\ interruptedBy \in [Tasks -> {"none", "external", "preemption"}]

Init ==
    /\ queues = [p \in UserInteractionPriority |-> <<>>]
    /\ current = None
    /\ priority = [t \in Tasks |-> NORMAL]
    /\ propagate = [t \in Tasks |-> TRUE]
    /\ event = [t \in Tasks |-> FALSE]
    /\ running = [t \in Tasks |-> FALSE]
    /\ preempted = [t \in Tasks |-> FALSE]
    /\ pc = [t \in Tasks |-> "idle"]
    /\ mustCancel = [t \in Tasks |-> FALSE]
    /\ numCancels = [t \in Tasks |-> 0]
    /\ outcome = [t \in Tasks |-> "none"]
    /\ locked = FALSE
    /\ lockWaiters = <<>>
    /\ lockWoken = {}
    /\ grantOrder = <<>>
    /\ preemptLog = NoPreempt
    /\ extCancels = 0
    /\ interruptedBy = [t \in Tasks |-> "none"]
    /\ task = [t \in Tasks |-> t]
    /\ user_id = [t \in Tasks |-> 1]
    /\ user_interaction_queues =
           [u \in Users |-> [p \in UserInteractionPriority |-> <<>>]]
    /\ current_user_interaction = [u \in Users |-> None]
    /\ user_interaction_locks = [u \in Users |-> FALSE]
    /\ rpcPc = [c \in Calls |-> "idle"]
    /\ attempt = [c \in Calls |-> 0]
    /\ request_id = [c \in Calls |-> None]
    /\ pushed = [c \in Calls |-> <<>>]
    /\ outbound = <<>>
    /\ taken = {}
    /\ responseQ = [i \in RequestIds |-> <<>>]
    /\ response = [c \in Calls |-> <<>>]
    /\ rpcOutcome = [c \in Calls |-> NoOutcome]
    /\ notices = [c \in Calls |-> 0]
    /\ progress = [c \in Calls |-> "none"]
    /\ progress_message = [c \in Calls |-> None]
    /\ messages = [c \in Calls |-> <<>>]
    /\ callback_events = [p \in Prompts |-> "absent"]
    /\ callback_event_results = [p \in Prompts |-> NoResult]
    /\ user_message_callback_id = None
    /\ promptKind = [p \in Prompts |-> "none"]
    /\ waitPc = [p \in Prompts |-> "idle"]
    /\ message = [p \in Prompts |-> None]
    /\ pending_message = [p \in Prompts |-> FALSE]
    /\ pending_notices = [p \in Prompts |-> <<>>]
    /\ prompt_messages = [p \in Prompts |-> <<>>]
    /\ waitOutcome = [p \in Prompts |-> NoWaitOutcome]
    /\ redisplays = [p \in Prompts |-> 0]
    /\ callback_queries = {}
    /\ numReplies = 0
    /\ replies = {}
    /\ handled = NotHandled
    /\ cancelledDisplayed = [p \in Prompts |-> FALSE]

\* ------------------------------------------------ arbitrator operations
\* Variant: the lease is inserted at the front of its tier.
AddToUserInteractionQueueFront(a, l) ==
    [a EXCEPT !.queues[a.priority[l]] = <<l>> \o @]

\* _add_to_user_interaction_queue: append at the back of the lease's own tier.
AddToUserInteractionQueue(a, l) ==
    [a EXCEPT !.queues[a.priority[l]] = Append(@, l)]

\* UserInteraction.preempt: set the flag, then Task.cancel() on the task
\* that created the lease.  cancel() on a finished task does nothing; otherwise it counts the request and the task
\* gets a CancelledError when it is next resumed.
Preempt(a, l) ==
    LET a1 == [a EXCEPT !.preempted[l] = TRUE]
    IN  IF a.task[l] \in a.finished
        THEN a1
        ELSE [a1 EXCEPT !.numCancels[a.task[l]] = @ + 1,
                        !.mustCancel[a.task[l]] = TRUE]

\* Variant: the tier is compared with > instead of >=, so a waiter of the
\* holder's own priority preempts it.
PreemptScanTierStrict(a, possible_priority, by) ==
    IF possible_priority > a.priority[a.current]
       \/ a.queues[possible_priority] = <<>>
    THEN a
    ELSE IF a.running[a.current]
         THEN [Preempt(a, a.current) EXCEPT
                  !.preemptLog = [kind |-> "cancel", lease |-> a.current, by |-> by]]
         ELSE [AddToUserInteractionQueue(a, a.current) EXCEPT
                  !.preemptLog = [kind |-> "requeue", lease |-> a.current, by |-> by]]

\* Variant: preempt() is called on the current lease whether or not it is
\* running.
PreemptScanTierAlwaysCancel(a, possible_priority, by) ==
    IF possible_priority >= a.priority[a.current]
       \/ a.queues[possible_priority] = <<>>
    THEN a
    ELSE [Preempt(a, a.current) EXCEPT
             !.preemptLog = [kind |-> "cancel", lease |-> a.current, by |-> by]]

\* Variant: preempt() is called before the lease is looked at, so a lease
\* that is put back in its queue is cancelled as well.
PreemptScanTierCancelsRequeued(a, possible_priority, by) ==
    IF possible_priority >= a.priority[a.current]
       \/ a.queues[possible_priority] = <<>>
    THEN a
    ELSE IF a.running[a.current]
         THEN [Preempt(a, a.current) EXCEPT
                  !.preemptLog = [kind |-> "cancel", lease |-> a.current, by |-> by]]
         ELSE [AddToUserInteractionQueue(Preempt(a, a.current), a.current) EXCEPT
                  !.preemptLog = [kind |-> "requeue", lease |-> a.current, by |-> by]]

\* One iteration of the loop of _preempt_user_interaction_if_needed for tier
\* possible_priority.  Every path through the loop body returns, so the
\* iteration for the first tier decides and no later tier is examined.
PreemptScanTier(a, possible_priority, by) ==
    IF possible_priority >= a.priority[a.current]
       \/ a.queues[possible_priority] = <<>>
    THEN a
    ELSE IF a.running[a.current]
         THEN [Preempt(a, a.current) EXCEPT
                  !.preemptLog = [kind |-> "cancel", lease |-> a.current, by |-> by]]
         ELSE [AddToUserInteractionQueue(a, a.current) EXCEPT
                  !.preemptLog = [kind |-> "requeue", lease |-> a.current, by |-> by]]

\* _preempt_user_interaction_if_needed; `by` is the task executing it.
PreemptUserInteractionIfNeeded(a, by) ==
    IF a.current = None
    THEN a
    ELSE PreemptScanTier(a, HIGH, by)

\* The first non-empty tier in the order of the enum (HIGH first).
FirstNonEmptyTier(q) ==
    CHOOSE p \in UserInteractionPriority :
        /\ q[p] # <<>>
        /\ \A p2 \in UserInteractionPriority : p2 < p => q[p2] = <<>>

\* Variant: the lease is put in the slot but allow_to_run() is not called.
TryToAllowNextUserInteractionNoWake(a, by) ==
    LET a1 == PreemptUserInteractionIfNeeded(a, by)
    IN  IF a1.current # None
        THEN a1
        ELSE IF AllEmpty(a1.queues)
             THEN a1
             ELSE LET p == FirstNonEmptyTier(a1.queues)
                      l == Head(a1.queues[p])
                  IN  [a1 EXCEPT !.queues[p] = Tail(@),
                                 !.current = l,
                                 !.grantOrder = Append(@, l)]

\* _try_to_allow_next_user_interaction.
TryToAllowNextUserInteraction(a, by) ==
    LET a1 == PreemptUserInteractionIfNeeded(a, by)
    IN  IF a1.current # None
        THEN a1
        ELSE IF AllEmpty(a1.queues)
             THEN a1
             ELSE LET p == FirstNonEmptyTier(a1.queues)
                      l == Head(a1.queues[p])
                  IN  [a1 EXCEPT !.queues[p] = Tail(@),
                                 !.event[l] = TRUE,
                                 !.current = l,
                                 !.grantOrder = Append(@, l)]

\* Variant: the slot is left as it is.
ClearCurrentUserInteractionSkipped(a) == a

\* _clear_current_user_interaction: clears the slot, whoever holds it.
ClearCurrentUserInteraction(a) == [a EXCEPT !.current = None]

\* ------------------------------------------------------- asyncio.Lock
\* A waiter's future is cancelled when its task was cancelled before
\* release() completed the future.
FutCancelled(w) == mustCancel[w] /\ w \notin lockWoken

\* Lock.acquire takes the lock at once when it is free and no waiter is due.
LockFree == ~locked /\ \A w \in Range(lockWaiters) : FutCancelled(w)

\* Lock._wake_up_first: complete the future of the first waiter if pending.
WakeUpFirst(waiters, woken) ==
    IF waiters = <<>>
    THEN woken
    ELSE IF Head(waiters) \in woken \/ mustCancel[Head(waiters)]
         THEN woken
         ELSE woken \cup {Head(waiters)}

\* ------------------------------------------------------------ actions
SetArb(a) ==
    /\ queues' = a.queues
    /\ current' = a.current
    /\ event' = a.event
    /\ preempted' = a.preempted
    /\ grantOrder' = a.grantOrder
    /\ preemptLog' = a.preemptLog

\* Variant: the body is entered without waiting for the event or the lock.
WaitToRunAndLockSkipped(t, isSet) == "body"

\* Where user_interaction is after `await wait_to_run()` and `async with
\* lock` (lines 761-763), given whether the lease's event is set: in the
\* body, suspended in Lock.acquire, or suspended in Event.wait.
WaitToRunAndLock(t, isSet) ==
    IF isSet
    THEN IF LockFree THEN "body" ELSE "lockwait"
    ELSE "waiting"

\* Task t calls user_interaction(propagate_preemption=pp, priority=p) and runs
\* to its first suspension: creates the lease, enqueues it, runs the
\* preemption-check and the grant-check, and waits for its event.
UserInteractionCall(t, p, pp) ==
    /\ pc[t] = "idle"
    /\ \A u \in Tasks : u < t => pc[u] # "idle"
    /\ LET a0 == [Arb EXCEPT !.priority[t] = p]
           a1 == AddToUserInteractionQueue(a0, t)
           a2 == TryToAllowNextUserInteraction(a1, t)
           at == WaitToRunAndLock(t, a2.event[t])
       IN  /\ SetArb(a2)
           /\ priority' = a2.priority
           /\ propagate' = [propagate EXCEPT ![t] = pp]
           /\ mustCancel' = a2.mustCancel
           /\ numCancels' = a2.numCancels
           /\ running' = [a2.running EXCEPT ![t] = a2.event[t]]
           /\ pc' = [pc EXCEPT ![t] = at]
           /\ locked' = (locked \/ at = "body")
           /\ lockWaiters' = IF at = "lockwait" THEN Append(lockWaiters, t)
                                                 ELSE lockWaiters
           /\ interruptedBy' =
                  [u \in Tasks |->
                      IF interruptedBy[u] = "none" /\ a2.numCancels[u] > numCancels[u]
                      THEN "preemption"
                      ELSE interruptedBy[u]]
           /\ UNCHANGED <<outcome, lockWoken, extCancels, task>>
           /\ UNCHANGED <<rpcVars, regVars, perUserVars>>

\* The CancelledError leaves user_interaction before the try statement is
\* entered: no handler and no finally clause runs.
CancelledBeforeBody(t) ==
    /\ pc' = [pc EXCEPT ![t] = "done"]
    /\ outcome' = [outcome EXCEPT ![t] = "cancelled"]
    /\ mustCancel' = [mustCancel EXCEPT ![t] = FALSE]

\* The event loop resumes task t, suspended in Event.wait (wait_to_run).
ResumeWaiting(t) ==
    /\ pc[t] = "waiting"
    /\ event[t] \/ mustCancel[t]
    /\ IF mustCancel[t]
       THEN /\ CancelledBeforeBody(t)
            /\ UNCHANGED <<running, locked, lockWaiters>>
       ELSE LET at == WaitToRunAndLock(t, TRUE)
            IN  /\ running' = [running EXCEPT ![t] = TRUE]
                /\ pc' = [pc EXCEPT ![t] = at]
                /\ locked' = (locked \/ at = "body")
                /\ lockWaiters' = IF at = "lockwait" THEN Append(lockWaiters, t)
                                                      ELSE lockWaiters
                /\ UNCHANGED <<outcome, mustCancel>>
    /\ preemptLog' = NoPreempt
    /\ UNCHANGED <<queues, current, priority, propagate, event, preempted,
                   numCancels, lockWoken, grantOrder, extCancels,
                   interruptedBy, task>>
    /\ UNCHANGED <<rpcVars, regVars, perUserVars>>

\* The event loop resumes task t, suspended in Lock.acquire.
ResumeLockWait(t) ==
    /\ pc[t] = "lockwait"
    /\ t \in lockWoken \/ mustCancel[t]
    /\ LET i == FirstIndex(lockWaiters, t)
           rest == RemoveAt(lockWaiters, i)
       IN  IF mustCancel[t]
           THEN /\ CancelledBeforeBody(t)
                /\ lockWaiters' = rest
                /\ lockWoken' = IF locked THEN lockWoken \ {t}
                                          ELSE WakeUpFirst(rest, lockWoken \ {t})
                /\ UNCHANGED locked
           ELSE /\ pc' = [pc EXCEPT ![t] = "body"]
                /\ locked' = TRUE
                /\ lockWaiters' = rest
                /\ lockWoken' = lockWoken \ {t}
                /\ UNCHANGED <<outcome, mustCancel>>
    /\ preemptLog' = NoPreempt
    /\ UNCHANGED <<queues, current, priority, propagate, event, running,
                   preempted, numCancels, grantOrder, extCancels,
                   interruptedBy, task>>
    /\ UNCHANGED <<rpcVars, regVars, perUserVars>>

Resume(t) == IF pc[t] = "lockwait" THEN ResumeLockWait(t) ELSE ResumeWaiting(t)

\* Variant: the handler does not look at propagate_preemption.
ExitOutcomeAlwaysPropagates(t, exc) ==
    IF exc = "CancelledError"
    THEN IF preempted[t] THEN "preempted" ELSE "cancelled"
    ELSE IF exc = "Exception" THEN "error" ELSE "returned"

\* What the `except asyncio.CancelledError` clause (lines 766-772) makes of the
\* exception that left the body: "preempted" stands for UserInteractionPreempted.
ExitOutcome(t, exc) ==
    IF exc = "CancelledError"
    THEN IF preempted[t] /\ propagate[t] THEN "preempted" ELSE "cancelled"
    ELSE IF exc = "Exception" THEN "error" ELSE "returned"

\* Task.uncancel() in the handler, called exactly when it raises
\* UserInteractionPreempted.
Uncancel(t, out) ==
    IF out = "preempted" /\ numCancels[t] > 0
    THEN [numCancels EXCEPT ![t] = @ - 1]
    ELSE numCancels

\* The body of the lease of t ends: it returns, raises (how), or is
\* interrupted by the CancelledError due to t.  The handler and the finally
\* clause run, then the lock is released.
BodyExit(t, how) ==
    /\ pc[t] = "body"
    /\ LET exc == IF mustCancel[t] THEN "CancelledError" ELSE how
           out == ExitOutcome(t, exc)
           a1 == ClearCurrentUserInteraction(Arb)
           a2 == TryToAllowNextUserInteraction(a1, t)
       IN  /\ SetArb(a2)
           /\ outcome' = [outcome EXCEPT ![t] = out]
           /\ numCancels' = Uncancel(t, out)
           /\ mustCancel' = [mustCancel EXCEPT ![t] = FALSE]
           /\ pc' = [pc EXCEPT ![t] = "done"]
           /\ locked' = FALSE
           /\ lockWoken' = WakeUpFirst(lockWaiters, lockWoken)
           /\ UNCHANGED <<priority, propagate, running, lockWaiters, extCancels,
                          interruptedBy, task>>
           /\ UNCHANGED <<rpcVars, regVars, perUserVars>>

\* Something outside the arbitrator (shutdown, an enclosing timeout) calls
\* Task.cancel() on a task that is suspended inside user_interaction.
Cancel(t) ==
    /\ pc[t] \in {"waiting", "lockwait", "body"}
    /\ extCancels < MaxExternalCancels
    /\ extCancels' = extCancels + 1
    /\ interruptedBy' = [interruptedBy EXCEPT
                             ![t] = IF @ = "none" THEN "external" ELSE @]
    /\ numCancels' = [numCancels EXCEPT ![t] = @ + 1]
    /\ mustCancel' = [mustCancel EXCEPT ![t] = TRUE]
    /\ preemptLog' = NoPreempt
    /\ UNCHANGED <<queues, current, priority, propagate, event, running,
                   preempted, pc, outcome, locked, lockWaiters, lockWoken,
                   grantOrder, task>>
    /\ UNCHANGED <<rpcVars, regVars, perUserVars>>

Next ==
    \/ \E t \in Tasks, p \in UserInteractionPriority, pp \in BOOLEAN :
           UserInteractionCall(t, p, pp)
    \/ \E t \in Tasks : Resume(t)
    \/ \E t \in Tasks, how \in {"Return", "Exception"} : BodyExit(t, how)
    \/ \E t \in Tasks : Cancel(t)

Spec == Init /\ [][Next]_vars

\* Without external cancellation: the only Task.cancel() is that of preempt.
NextNoCancel ==
    \/ \E t \in Tasks, p \in UserInteractionPriority, pp \in BOOLEAN :
           UserInteractionCall(t, p, pp)
    \/ \E t \in Tasks : Resume(t)
    \/ \E t \in Tasks, how \in {"Return", "Exception"} : BodyExit(t, how)

\* The event loop runs every task that is ready (its ready queue is FIFO),
\* and every lease body terminates.
Fairness ==
    \A t \in Tasks :
        /\ WF_vars(Resume(t))
        /\ WF_vars(\E how \in {"Return", "Exception"} : BodyExit(t, how))

FairSpec == Init /\ [][Next]_vars /\ Fairness

FairSpecNoCancel == Init /\ [][NextNoCancel]_vars /\ Fairness

\* ------------------------------------------------ nested user_interaction
\* A task that is inside the body of its lease calls user_interaction again
\* (show_command_menu runs the chosen command inside its HIGH lease, and the
\* command opens a lease of its own).  The inner lease n is a new
\* UserInteraction created by the same task: task[n] is the outer lease's
\* task.  The outer body goes on only when the inner call has ended.

\* The leases task t has opened inside the body of its own lease.
InnerLeases(t) == {n \in Tasks : n # t /\ task[n] = t}

\* Task t, in the body of its lease, calls user_interaction(priority=p,
\* propagate_preemption=pp) and runs to its first suspension: in Event.wait
\* (wait_to_run), or in Lock.acquire, the lock being held by t's outer lease.
NestedCall(t, n, p, pp) ==
    /\ pc[t] = "body"
    /\ task[t] = t
    /\ ~mustCancel[t]
    /\ \A m \in InnerLeases(t) : pc[m] = "done"
    /\ pc[n] = "idle"
    /\ \A u \in Tasks : u < n => pc[u] # "idle"
    /\ LET a0 == [Arb EXCEPT !.priority[n] = p, !.task[n] = t]
           a1 == AddToUserInteractionQueue(a0, n)
           a2 == TryToAllowNextUserInteraction(a1, n)
           at == WaitToRunAndLock(n, a2.event[n])
       IN  /\ SetArb(a2)
           /\ priority' = a2.priority
           /\ task' = a2.task
           /\ propagate' = [propagate EXCEPT ![n] = pp]
           /\ mustCancel' = a2.mustCancel
           /\ numCancels' = a2.numCancels
           /\ running' = [a2.running EXCEPT ![n] = a2.event[n]]
           /\ pc' = [pc EXCEPT ![n] = at]
           /\ locked' = (locked \/ at = "body")
           /\ lockWaiters' = IF at = "lockwait" THEN Append(lockWaiters, n)
                                                 ELSE lockWaiters
           /\ interruptedBy' =
                  [u \in Tasks |->
                      IF interruptedBy[u] = "none" /\ a2.numCancels[u] > numCancels[u]
                      THEN "preemption"
                      ELSE interruptedBy[u]]
           /\ UNCHANGED <<outcome, lockWoken, extCancels>>
           /\ UNCHANGED <<rpcVars, regVars, perUserVars>>

\* The task of the inner lease n was cancelled: the CancelledError is raised
\* at the await the inner call is suspended in and leaves the inner
\* user_interaction (no handler there); it is then in the outer body, whose
\* exit handles it.
NestedCancelled(n) ==
    /\ task[n] # n
    /\ pc[n] \in {"waiting", "lockwait"}
    /\ mustCancel[task[n]]
    /\ pc' = [pc EXCEPT ![n] = "done"]
    /\ outcome' = [outcome EXCEPT ![n] = "cancelled"]
    /\ lockWaiters' = IF n \in Range(lockWaiters)
                      THEN RemoveAt(lockWaiters, FirstIndex(lockWaiters, n))
                      ELSE lockWaiters
    /\ lockWoken' = lockWoken \ {n}
    /\ preemptLog' = NoPreempt
    /\ UNCHANGED <<queues, current, priority, propagate, event, running,
                   preempted, mustCancel, numCancels, locked, grantOrder,
                   extCancels, interruptedBy, task>>
    /\ UNCHANGED <<rpcVars, regVars, perUserVars>>

\* The event loop resumes the call of lease l; a CancelledError due to the
\* task of an inner lease is raised instead (NestedCancelled).
LeaseResume(l) ==
    /\ task[l] = l \/ ~mustCancel[task[l]]
    /\ Resume(l)

\* The body of the lease of t ends, once the inner call it awaits has ended.
NestedBodyExit(t, how) ==
    /\ \A n \in InnerLeases(t) : pc[n] = "done"
    /\ BodyExit(t, how)

NestedNext ==
    \/ \E t \in Tasks, p \in UserInteractionPriority, pp \in BOOLEAN :
           UserInteractionCall(t, p, pp)
    \/ \E t, n \in Tasks, p \in UserInteractionPriority, pp \in BOOLEAN :
           NestedCall(t, n, p, pp)
    \/ \E n \in Tasks : NestedCancelled(n)
    \/ \E l \in Tasks : LeaseResume(l)
    \/ \E t \in Tasks, how \in {"Return", "Exception"} : NestedBodyExit(t, how)

NestedSpec == Init /\ [][NestedNext]_vars

\* The event loop runs every task that is ready, and a lease body ends once
\* the inner call it awaits has ended.
NestedFairness ==
    \A t \in Tasks :
        /\ WF_vars(LeaseResume(t))
        /\ WF_vars(NestedCancelled(t))
        /\ WF_vars(\E how \in {"Return", "Exception"} : NestedBodyExit(t, how))

NestedFairSpec == Init /\ [][NestedNext]_vars /\ NestedFairness

\* ------------------------------------------------ arbitration per user
\* Every dictionary of the arbitrator is read with
\* setdefault(self._telegram_user_id, ...): the queues, the running slot and
\* the lock of the user the TelegramBotApi object was made for.  Leases are
\* UserInteraction objects and carry their own event and flags.

\* Variant: every object reads the entry of the same user.
KeyOfFirstUser(u) == 1

\* The key self._telegram_user_id of the bot object of user u.
Key(u) == u

\* The arbitrator's data of user u as one value.
ArbOf(u) ==
    [Arb EXCEPT !.queues = user_interaction_queues[Key(u)],
                !.current = current_user_interaction[Key(u)]]

\* The data of user u written back after the statements of a handler.
SetArbOf(u, a) ==
    /\ user_interaction_queues' = [user_interaction_queues EXCEPT ![Key(u)] = a.queues]
    /\ current_user_interaction' = [current_user_interaction EXCEPT ![Key(u)] = a.current]
    /\ event' = a.event
    /\ preempted' = a.preempted
    /\ grantOrder' = a.grantOrder
    /\ preemptLog' = a.preemptLog

\* Where user_interaction is after wait_to_run and `async with lock`, with
\* the lock of user u.
WaitToRunAndLockOf(u, isSet) ==
    IF isSet
    THEN IF user_interaction_locks[Key(u)] THEN "lockwait" ELSE "body"
    ELSE "waiting"

\* Task t calls user_interaction on the bot object of user u.
UserCall(u, t, p, pp) ==
    /\ pc[t] = "idle"
    /\ \A v \in Tasks : v < t => pc[v] # "idle"
    /\ LET a0 == [ArbOf(u) EXCEPT !.priority[t] = p]
           a1 == AddToUserInteractionQueue(a0, t)
           a2 == TryToAllowNextUserInteraction(a1, t)
           at == WaitToRunAndLockOf(u, a2.event[t])
       IN  /\ SetArbOf(u, a2)
           /\ user_id' = [user_id EXCEPT ![t] = u]
           /\ priority' = a2.priority
           /\ propagate' = [propagate EXCEPT ![t] = pp]
           /\ mustCancel' = a2.mustCancel
           /\ numCancels' = a2.numCancels
           /\ running' = [a2.running EXCEPT ![t] = a2.event[t]]
           /\ pc' = [pc EXCEPT ![t] = at]
           /\ user_interaction_locks' =
                  [user_interaction_locks EXCEPT ![Key(u)] = @ \/ at = "body"]
           /\ interruptedBy' =
                  [v \in Tasks |->
                      IF interruptedBy[v] = "none" /\ a2.numCancels[v] > numCancels[v]
                      THEN "preemption"
                      ELSE interruptedBy[v]]
           /\ UNCHANGED <<queues, current, outcome, locked, lockWaiters,
                          lockWoken, extCancels, task>>
           /\ UNCHANGED <<rpcVars, regVars>>

\* The event loop resumes task t, suspended in Event.wait or in the
\* acquire of its user's lock.
UserResume(t) ==
    /\ pc[t] \in {"waiting", "lockwait"}
    /\ mustCancel[t] \/ (event[t] /\ ~user_interaction_locks[Key(user_id[t])])
    /\ IF mustCancel[t]
       THEN /\ CancelledBeforeBody(t)
            /\ UNCHANGED <<running, user_interaction_locks>>
       ELSE /\ running' = [running EXCEPT ![t] = TRUE]
            /\ pc' = [pc EXCEPT ![t] = "body"]
            /\ user_interaction_locks' =
                   [user_interaction_locks EXCEPT ![Key(user_id[t])] = TRUE]
            /\ UNCHANGED <<outcome, mustCancel>>
    /\ preemptLog' = NoPreempt
    /\ UNCHANGED <<queues, current, priority, propagate, event, preempted,
                   numCancels, locked, lockWaiters, lockWoken, grantOrder,
                   extCancels, interruptedBy, task, user_id,
                   user_interaction_queues, current_user_interaction>>
    /\ UNCHANGED <<rpcVars, regVars>>

\* The body of the lease of t ends: handler, finally clause (the slot of the
\* lease's user is cleared, the next lease of that user granted), and the
\* release of that user's lock.
UserBodyExit(t, how) ==
    /\ pc[t] = "body"
    /\ LET u == user_id[t]
           exc == IF mustCancel[t] THEN "CancelledError" ELSE how
           out == ExitOutcome(t, exc)
           a1 == ClearCurrentUserInteraction(ArbOf(u))
           a2 == TryToAllowNextUserInteraction(a1, t)
       IN  /\ SetArbOf(u, a2)
           /\ outcome' = [outcome EXCEPT ![t] = out]
           /\ numCancels' = Uncancel(t, out)
           /\ mustCancel' = [mustCancel EXCEPT ![t] = FALSE]
           /\ pc' = [pc EXCEPT ![t] = "done"]
           /\ user_interaction_locks' =
                  [user_interaction_locks EXCEPT ![Key(u)] = FALSE]
           /\ UNCHANGED <<queues, current, priority, propagate, running, locked,
                          lockWaiters, lockWoken, extCancels, interruptedBy,
                          task, user_id>>
           /\ UNCHANGED <<rpcVars, regVars>>

UsersNext ==
    \/ \E u \in Users, t \in Tasks, p \in UserInteractionPriority, pp \in BOOLEAN :
           UserCall(u, t, p, pp)
    \/ \E t \in Tasks : UserResume(t)
    \/ \E t \in Tasks, how \in {"Return", "Exception"} : UserBodyExit(t, how)

UsersSpec == Init /\ [][UsersNext]_vars

\* =================================================== ObsidianApi._send_request
\* The caller pushes a request on the list obsidian-plugin-tasks:{user.id}
\* and waits on the list obsidian-plugin-tasks:{user.id}:{request_id}.  The
\* Redis commands are the steps: between two of them the companion (the
\* Obsidian plugin, the peer at the other end of the lists) may act.  Redis
\* itself is taken to work: lpush, blpop and lrem do not fail.

\* Texts are sequences of words, so that equality and `in` (substring) are
\* computed and differ.
FILE_NOT_FOUND == <<"file", "not", "found">>
DESTINATION_EXISTS == <<"Destination", "file", "already", "exists">>

\* `needle in hay` for texts.
Contains(hay, needle) ==
    \E i \in 0..(Len(hay) - Len(needle)) :
        SubSeq(hay, i + 1, i + Len(needle)) = needle

\* The result texts of the failure responses considered.
FailureTexts ==
    { FILE_NOT_FOUND,
      <<"Error:">> \o DESTINATION_EXISTS,
      <<"note">> \o FILE_NOT_FOUND,
      <<"boom">> }

\* The responses the companion may push for request req.  `for` is history:
\* the request the companion was serving; it is not part of the JSON.
Responses(req) ==
    {[success |-> TRUE, result |-> <<"X">>, for |-> req]}
        \cup {[success |-> FALSE, result |-> r, for |-> req] : r \in FailureTexts}

\* The request of attempt k of call c.  All calls use the same method and
\* params, so the JSON text of a request is determined by its request_id;
\* call and attempt are history.
Request(c, id, k) == [request_id |-> id, call |-> c, attempt |-> k]

\* Variant: the request_id is drawn once per call and used for every attempt.
RequestIdOfCall(c, k) == (c - 1) * max_attempts + 1

\* request_id = uuid.uuid4().int, drawn inside the loop.
FreshRequestId(c, k) == (c - 1) * max_attempts + k

\* Variant: nothing is removed.
LRemNothing(q, id) == q

\* redis_api.lrem(request_queue_name, 0, json.dumps(request)): removes every
\* element equal to the JSON text of the request.
LRem(q, id) == SelectSeq(q, LAMBDA e : e.request_id # id)

\* Variant: the loop gives up one attempt early.
AttemptsRemainOneLess(k) == k + 1 < max_attempts

\* `if attempt < max_attempts: continue`.
AttemptsRemain(k) == k < max_attempts

\* Variant: the response itself is returned.
ResponseGetResultWhole(r) == <<"success", "result">>

\* `return response.get("result", None)`.
ResponseGetResult(r) == r.result

\* Variant: the not-found kind is the only one told apart.
ClassifyNotFoundOnly(r) ==
    IF r.result = FILE_NOT_FOUND THEN "FileNotFoundError" ELSE "RuntimeError"

\* The error raised for a response with success false (lines 165-169).
Classify(r) ==
    IF r.result = FILE_NOT_FOUND
    THEN "FileNotFoundError"
    ELSE IF Contains(r.result, DESTINATION_EXISTS)
         THEN "FileExistsError"
         ELSE "RuntimeError"

\* The texts of the progress message: the bar of attempt k, and the text set
\* after the last attempt ("Obsidian didn't respond").
WaitingText(k) == [kind |-> "waiting", attempt |-> k]
FailureText == [kind |-> "failed", attempt |-> None]

\* Message.edit_text and Message.delete on message number m of a call's
\* messages; nothing when self._progress_message is None.  Telegram is taken
\* to carry them out on a message it still shows; an exception they raise is
\* swallowed by the code.
EditText(msgs, m, text) ==
    IF m = None \/ ~msgs[m].shown THEN msgs ELSE [msgs EXCEPT ![m].text = text]

DeleteMessage(msgs, m) ==
    IF m = None THEN msgs ELSE [msgs EXCEPT ![m].shown = FALSE]

\* One iteration of the loop up to the blpop: a new request is pushed at the
\* head of the outbound list.  The first iteration starts the call.
SendRequestAttempt(c) ==
    /\ rpcPc[c] \in {"idle", "retry"}
    /\ rpcPc[c] = "idle" => \A d \in Calls : d < c => rpcPc[d] # "idle"
    /\ LET k == IF rpcPc[c] = "idle" THEN 1 ELSE attempt[c] + 1
           id == FreshRequestId(c, k)
       IN  /\ attempt' = [attempt EXCEPT ![c] = k]
           /\ request_id' = [request_id EXCEPT ![c] = id]
           /\ pushed' = [pushed EXCEPT ![c] = Append(@, id)]
           /\ outbound' = <<Request(c, id, k)>> \o outbound
    /\ rpcPc' = [rpcPc EXCEPT ![c] = "wait"]
    /\ progress' = [progress EXCEPT ![c] = "waiting"]
    /\ progress_message' =
           [progress_message EXCEPT ![c] = IF rpcPc[c] = "idle" THEN None ELSE @]
    /\ UNCHANGED <<taken, responseQ, response, rpcOutcome, notices, messages>>
    /\ UNCHANGED <<arbVars, regVars>>

\* blpop returns the first response on the list of the current request_id.
\* A response with success true ends the call with its result; one with
\* success false is reported to the chat first.
BLPop(c) ==
    /\ rpcPc[c] = "wait"
    /\ responseQ[request_id[c]] # <<>>
    /\ LET r == Head(responseQ[request_id[c]])
       IN  /\ responseQ' = [responseQ EXCEPT ![request_id[c]] = Tail(@)]
           /\ response' = [response EXCEPT ![c] = <<r>>]
           /\ IF r.success
              THEN /\ rpcPc' = [rpcPc EXCEPT ![c] = "done"]
                   /\ rpcOutcome' = [rpcOutcome EXCEPT
                          ![c] = [kind |-> "returned", value |-> ResponseGetResult(r)]]
              ELSE /\ rpcPc' = [rpcPc EXCEPT ![c] = "notify"]
                   /\ UNCHANGED rpcOutcome
    /\ progress' = [progress EXCEPT ![c] = "cancelled"]
    /\ messages' = [messages EXCEPT ![c] = DeleteMessage(@, progress_message[c])]
    /\ UNCHANGED <<attempt, request_id, pushed, outbound, taken, notices,
                   progress_message>>
    /\ UNCHANGED <<arbVars, regVars>>

\* asyncio.timeout(30) expires while the call waits in blpop: the request is
\* removed from the outbound list; then the next attempt, or after the last
\* one ObsidianApiTimeoutError.
Timeout(c) ==
    /\ rpcPc[c] = "wait"
    /\ outbound' = LRem(outbound, request_id[c])
    /\ IF AttemptsRemain(attempt[c])
       THEN /\ rpcPc' = [rpcPc EXCEPT ![c] = "retry"]
            /\ UNCHANGED rpcOutcome
       ELSE /\ rpcPc' = [rpcPc EXCEPT ![c] = "done"]
            /\ rpcOutcome' = [rpcOutcome EXCEPT
                   ![c] = [kind |-> "ObsidianApiTimeoutError", value |-> <<>>]]
    /\ progress' = [progress EXCEPT ![c] = "cancelled"]
    /\ messages' =
           [messages EXCEPT
               ![c] = IF AttemptsRemain(attempt[c])
                      THEN @
                      ELSE EditText(@, progress_message[c], FailureText)]
    /\ UNCHANGED <<attempt, request_id, pushed, taken, responseQ,
                   response, notices, progress_message>>
    /\ UNCHANGED <<arbVars, regVars>>

\* `if not response["success"]`: two bot.send_message calls, then the error
\* is raised.  `delivered` is the number of messages Telegram accepted; a
\* send_message that fails raises, and that exception leaves _send_request.
NotifyAndRaise(c, delivered) ==
    /\ rpcPc[c] = "notify"
    /\ notices' = [notices EXCEPT ![c] = delivered]
    /\ rpcOutcome' = [rpcOutcome EXCEPT
           ![c] = [kind |-> IF delivered = 2 THEN Classify(response[c][1])
                                             ELSE "TelegramError",
                   value |-> <<>>]]
    /\ rpcPc' = [rpcPc EXCEPT ![c] = "done"]
    /\ UNCHANGED <<attempt, request_id, pushed, outbound, taken,
                   responseQ, response, progVars>>
    /\ UNCHANGED <<arbVars, regVars>>

\* The number of responses the companion has pushed so far: each one is on a
\* response list or in the `response` variable of the call that took it.
RECURSIVE SumLen(_, _)
SumLen(f, n) == IF n = 0 THEN 0 ELSE Len(f[n]) + SumLen(f, n - 1)

NumResponded ==
    SumLen(responseQ, NumCalls * max_attempts) + SumLen(response, NumCalls)

\* The companion pops the oldest request from the outbound list.
CompanionTake ==
    /\ outbound # <<>>
    /\ taken' = taken \cup {outbound[Len(outbound)]}
    /\ outbound' = SubSeq(outbound, 1, Len(outbound) - 1)
    /\ UNCHANGED <<rpcPc, attempt, request_id, pushed, responseQ,
                   response, rpcOutcome, notices, progVars>>
    /\ UNCHANGED <<arbVars, regVars>>

\* The companion pushes the response to a request it has popped on the list
\* named after the request's request_id, however late.
CompanionRespond(req, r) ==
    /\ req \in taken
    /\ r \in Responses(req)
    /\ NumResponded < MaxResponses
    /\ responseQ' = [responseQ EXCEPT ![req.request_id] = Append(@, r)]
    /\ taken' = taken \ {req}
    /\ UNCHANGED <<rpcPc, attempt, request_id, pushed, outbound,
                   response, rpcOutcome, notices, progVars>>
    /\ UNCHANGED <<arbVars, regVars>>

\* The caller of _send_request is cancelled (its lease is preempted, the
\* process shuts down) while it waits in blpop or in send_message: the
\* CancelledError matches no except clause of _send_request and leaves it.
RpcCancel(c) ==
    /\ rpcPc[c] \in {"wait", "notify"}
    /\ rpcPc' = [rpcPc EXCEPT ![c] = "done"]
    /\ rpcOutcome' = [rpcOutcome EXCEPT
           ![c] = [kind |-> "CancelledError", value |-> <<>>]]
    /\ UNCHANGED <<attempt, request_id, pushed, outbound, taken, responseQ,
                   response, notices, progVars>>
    /\ UNCHANGED <<arbVars, regVars>>

\* _run_progress_bar, first rendering: self._progress_message is None, so
\* bot.send_message is awaited.  Telegram gets and shows the message while
\* the task is suspended in that await.
ProgressSendStart(c) ==
    /\ progress[c] = "waiting"
    /\ progress_message[c] = None
    /\ messages' = [messages EXCEPT
           ![c] = Append(@, [text |-> WaitingText(attempt[c]), shown |-> TRUE])]
    /\ progress' = [progress EXCEPT ![c] = "sending"]
    /\ UNCHANGED <<rpcPc, attempt, request_id, pushed, outbound, taken,
                   responseQ, response, rpcOutcome, notices, progress_message>>
    /\ UNCHANGED <<arbVars, regVars>>

\* The await of bot.send_message returns in the progress task, which stores
\* the message in self._progress_message and sleeps.
ProgressSendDone(c) ==
    /\ progress[c] = "sending"
    /\ progress_message' = [progress_message EXCEPT ![c] = Len(messages[c])]
    /\ progress' = [progress EXCEPT ![c] = "waiting"]
    /\ UNCHANGED <<rpcPc, attempt, request_id, pushed, outbound, taken,
                   responseQ, response, rpcOutcome, notices, messages>>
    /\ UNCHANGED <<arbVars, regVars>>

\* _run_progress_bar, a later rendering: the message is edited.
ProgressEdit(c) ==
    /\ progress[c] = "waiting"
    /\ progress_message[c] # None
    /\ messages' = [messages EXCEPT
           ![c] = EditText(@, progress_message[c], WaitingText(attempt[c]))]
    /\ UNCHANGED <<rpcPc, attempt, request_id, pushed, outbound, taken,
                   responseQ, response, rpcOutcome, notices, progress,
                   progress_message>>
    /\ UNCHANGED <<arbVars, regVars>>

RpcNext ==
    \/ \E c \in Calls : SendRequestAttempt(c)
    \/ \E c \in Calls : BLPop(c)
    \/ \E c \in Calls : Timeout(c)
    \/ \E c \in Calls, delivered \in 0..2 : NotifyAndRaise(c, delivered)
    \/ CompanionTake
    \/ \E req \in taken : \E r \in Responses(req) : CompanionRespond(req, r)
    \/ \E c \in Calls : RpcCancel(c)

RpcSpec == Init /\ [][RpcNext]_vars

\* The companion never answers: it may pop requests but pushes no response.
RpcNextSilent ==
    \/ \E c \in Calls : SendRequestAttempt(c)
    \/ \E c \in Calls : Timeout(c)
    \/ CompanionTake

\* A call that has started goes on: the wait in blpop ends within the 30
\* seconds of asyncio.timeout, the next iteration of the loop follows the
\* `continue`, and the chat messages are sent or fail.
RpcFairness ==
    \A c \in Calls :
        /\ WF_vars(Timeout(c) \/ BLPop(c))
        /\ WF_vars(rpcPc[c] = "retry" /\ SendRequestAttempt(c))
        /\ WF_vars(\E delivered \in 0..2 : NotifyAndRaise(c, delivered))

RpcSilentFairSpec == Init /\ [][RpcNextSilent]_vars /\ RpcFairness

\* The calls together with their progress tasks.
ProgressNext ==
    \/ \E c \in ProgressCalls : SendRequestAttempt(c)
    \/ \E c \in ProgressCalls : BLPop(c)
    \/ \E c \in ProgressCalls : Timeout(c)
    \/ \E c \in ProgressCalls, delivered \in 0..2 : NotifyAndRaise(c, delivered)
    \/ CompanionTake
    \/ \E req \in taken : \E r \in Responses(req) : CompanionRespond(req, r)
    \/ \E c \in ProgressCalls : RpcCancel(c)
    \/ \E c \in ProgressCalls : ProgressSendStart(c)
    \/ \E c \in ProgressCalls : ProgressSendDone(c)
    \/ \E c \in ProgressCalls : ProgressEdit(c)

ProgressSpec == Init /\ [][ProgressNext]_vars

\* The progress task runs when its sleep or its send is over, as long as it
\* is not cancelled; the call goes on as in RpcFairness.
ProgressFairness ==
    \A c \in ProgressCalls :
        /\ WF_vars(Timeout(c) \/ BLPop(c))
        /\ WF_vars(rpcPc[c] = "retry" /\ SendRequestAttempt(c))
        /\ WF_vars(\E delivered \in 0..2 : NotifyAndRaise(c, delivered))
        /\ WF_vars(ProgressSendStart(c) \/ ProgressEdit(c))
        /\ WF_vars(ProgressSendDone(c))

ProgressFairSpec == Init /\ [][ProgressNext]_vars /\ ProgressFairness

RpcTypeOK ==
    /\ rpcPc \in [Calls -> {"idle", "wait", "retry", "notify", "done"}]
    /\ attempt \in [Calls -> 0..max_attempts]
    /\ request_id \in [Calls -> RequestIds \cup {None}]
    /\ \A c \in Calls : Len(pushed[c]) = attempt[c]
    /\ \A e \in Range(outbound) \cup taken : e.request_id \in RequestIds
    /\ \A i \in RequestIds : \A r \in Range(responseQ[i]) : r \in Responses(r.for)
    /\ \A c \in Calls : Len(response[c]) <= 1
    /\ notices \in [Calls -> 0..2]
    /\ progress \in [Calls -> {"none", "waiting", "sending", "cancelled"}]
    /\ \A c \in Calls : progress_message[c] \in 0..Len(messages[c])

\* ------------------------------------------------ correlation registry
\* Telegram is taken to deliver every message that is sent.  A deletion is
\* carried out, or answered with False, or fails with a TelegramError; the
\* deletion of a message that is no longer displayed fails.
DeleteOutcomes(msgs, m) ==
    IF m # None /\ msgs[m] THEN {"deleted", "false", "raises"} ELSE {"raises"}

\* The chat after a deletion with the given outcome.
Deleted(msgs, m, out) ==
    IF out = "deleted" THEN [msgs EXCEPT ![m] = FALSE] ELSE msgs

\* The prompt messages of the id that are displayed.
Displayed(p) == {m \in 1..Len(prompt_messages[p]) : prompt_messages[p][m]}

\* Variant: the handler sets the event without storing the value.
StoreResultSkipped(results, cid, value) == results

\* results[cid] = value, in handle_callback_query and in handle_message.
StoreResult(results, cid, value) == [results EXCEPT ![cid] = value]

\* app.bot_data[CALLBACK_EVENT_RESULTS][callback_id] at the end of
\* wait_for_user_interaction: the value, or KeyError when there is none.
LookupResult(p) ==
    IF callback_event_results[p] = NoResult
    THEN [kind |-> "KeyError", value |-> NoResult]
    ELSE [kind |-> "returned", value |-> callback_event_results[p]]

\* init_callback, called by both requests: a fresh id and its event.
InitCallback(p) ==
    /\ waitPc[p] = "idle"
    /\ \A q \in Prompts : q < p => waitPc[q] # "idle"
    /\ callback_events' = [callback_events EXCEPT ![p] = "clear"]
    /\ waitPc' = [waitPc EXCEPT ![p] = "send"]

\* request_user_choice up to the first send_message_fn() of
\* wait_for_user_interaction: the buttons carry the callback_id.
RequestUserChoice(p) ==
    /\ InitCallback(p)
    /\ promptKind' = [promptKind EXCEPT ![p] = "choice"]
    /\ UNCHANGED <<callback_event_results, user_message_callback_id, message,
                   pending_message, prompt_messages, waitOutcome, redisplays,
                   callback_queries, numReplies, replies, handled,
                   cancelledDisplayed>>
    /\ UNCHANGED <<arbVars, rpcVars, pending_notices>>

\* request_user_input up to the first send_message_fn(): the user's text
\* messages are directed to this callback_id from now on.
RequestUserInput(p) ==
    /\ InitCallback(p)
    /\ promptKind' = [promptKind EXCEPT ![p] = "input"]
    /\ user_message_callback_id' = p
    /\ UNCHANGED <<callback_event_results, message, pending_message,
                   prompt_messages, waitOutcome, redisplays, callback_queries,
                   numReplies, replies, handled, cancelledDisplayed>>
    /\ UNCHANGED <<arbVars, rpcVars, pending_notices>>

\* `message = await send_message_fn()` returns.  callback_event.wait() does
\* not suspend when the event is set already: the loop is left at once.
SendMessageFn(p) ==
    /\ waitPc[p] = "send"
    /\ prompt_messages' = [prompt_messages EXCEPT ![p] = Append(@, TRUE)]
    /\ message' = [message EXCEPT ![p] = Len(prompt_messages[p]) + 1]
    /\ IF callback_events[p] # "set"
       THEN /\ waitPc' = [waitPc EXCEPT ![p] = "wait"]
            /\ UNCHANGED waitOutcome
       ELSE IF pending_message[p]
       THEN /\ waitPc' = [waitPc EXCEPT ![p] = "final"]
            /\ UNCHANGED waitOutcome
       ELSE /\ waitPc' = [waitPc EXCEPT ![p] = "done"]
            /\ waitOutcome' = [waitOutcome EXCEPT ![p] = LookupResult(p)]
    /\ UNCHANGED <<callback_events, callback_event_results,
                   user_message_callback_id, promptKind, pending_message,
                   redisplays, callback_queries, numReplies, replies, handled,
                   cancelledDisplayed>>
    /\ UNCHANGED <<arbVars, rpcVars, pending_notices>>

\* callback_event.wait() returns and the loop is left: pending_message is
\* deleted if there is one, and the stored result is returned.
Wake(p) ==
    /\ waitPc[p] = "wait"
    /\ callback_events[p] = "set"
    /\ IF pending_message[p]
       THEN /\ waitPc' = [waitPc EXCEPT ![p] = "final"]
            /\ UNCHANGED waitOutcome
       ELSE /\ waitPc' = [waitPc EXCEPT ![p] = "done"]
            /\ waitOutcome' = [waitOutcome EXCEPT ![p] = LookupResult(p)]
    /\ UNCHANGED <<callback_events, callback_event_results,
                   user_message_callback_id, promptKind, message,
                   pending_message, prompt_messages, redisplays,
                   callback_queries, numReplies, replies, handled,
                   cancelledDisplayed>>
    /\ UNCHANGED <<arbVars, rpcVars, pending_notices>>

\* `await pending_message.delete()` after the loop, then the return.
FinalDelete(p, out) ==
    /\ waitPc[p] = "final"
    /\ waitPc' = [waitPc EXCEPT ![p] = "done"]
    /\ waitOutcome' = [waitOutcome EXCEPT ![p] =
           IF out = "raises" THEN [kind |-> "TelegramError", value |-> NoResult]
           ELSE LookupResult(p)]
    /\ UNCHANGED <<callback_events, callback_event_results,
                   user_message_callback_id, promptKind, message,
                   pending_message, prompt_messages, redisplays,
                   callback_queries, numReplies, replies, handled,
                   cancelledDisplayed>>
    /\ pending_notices' = [pending_notices EXCEPT ![p] =
           IF out = "raises" THEN @ ELSE [i \in 1..Len(@) |-> FALSE]]
    /\ UNCHANGED <<arbVars, rpcVars>>

\* asyncio.timeout(60 minutes) expires while the event is not set: the
\* TimeoutError is caught and message.delete() is awaited.
Expire(p) ==
    /\ waitPc[p] = "wait"
    /\ callback_events[p] = "clear"
    /\ redisplays[p] < MaxRedisplays
    /\ redisplays' = [redisplays EXCEPT ![p] = @ + 1]
    /\ waitPc' = [waitPc EXCEPT ![p] = "expired"]
    /\ UNCHANGED <<callback_events, callback_event_results,
                   user_message_callback_id, promptKind, message,
                   pending_message, prompt_messages, waitOutcome,
                   callback_queries, numReplies, replies, handled,
                   cancelledDisplayed>>
    /\ UNCHANGED <<arbVars, rpcVars, pending_notices>>

\* The except TimeoutError clause once message.delete() is over:
\* RuntimeError when it answered False, else the pending-interactions notice
\* is renewed (the old one deleted, a new one sent) and the loop sends the
\* prompt again.
ExpiredDelete(p, out) ==
    /\ waitPc[p] = "expired"
    /\ out \in DeleteOutcomes(prompt_messages[p], message[p])
    /\ prompt_messages' = [prompt_messages EXCEPT ![p] = Deleted(@, message[p], out)]
    /\ IF out = "deleted"
       THEN /\ pending_message' = [pending_message EXCEPT ![p] = TRUE]
            /\ pending_notices' = [pending_notices EXCEPT ![p] =
                   [i \in 1..(Len(@) + 1) |-> i = Len(@) + 1]]
            /\ waitPc' = [waitPc EXCEPT ![p] = "send"]
            /\ UNCHANGED waitOutcome
       ELSE /\ waitPc' = [waitPc EXCEPT ![p] = "done"]
            /\ waitOutcome' = [waitOutcome EXCEPT ![p] =
                   [kind |-> IF out = "false" THEN "RuntimeError" ELSE "TelegramError",
                    value |-> NoResult]]
            /\ UNCHANGED <<pending_message, pending_notices>>
    /\ UNCHANGED <<callback_events, callback_event_results,
                   user_message_callback_id, promptKind, message, redisplays,
                   callback_queries, numReplies, replies, handled,
                   cancelledDisplayed>>
    /\ UNCHANGED <<arbVars, rpcVars>>

\* The task awaiting wait_for_user_interaction is cancelled (preemption of
\* its lease, or any cancel()): the CancelledError is raised at the await
\* the waiter is suspended in.  Inside the try the except CancelledError
\* clause awaits message.delete() when `message` is not None; after the loop
\* the error leaves the function directly.
CancelWaiter(p) ==
    /\ waitPc[p] \in {"send", "wait", "expired", "final"}
    /\ IF waitPc[p] # "final" /\ message[p] # None
       THEN /\ waitPc' = [waitPc EXCEPT ![p] = "cancelling"]
            /\ cancelledDisplayed' = [cancelledDisplayed EXCEPT ![p] =
                                          prompt_messages[p][message[p]]]
            /\ UNCHANGED waitOutcome
       ELSE /\ waitPc' = [waitPc EXCEPT ![p] = "done"]
            /\ waitOutcome' = [waitOutcome EXCEPT ![p] =
                   [kind |-> "CancelledError", value |-> NoResult]]
            /\ UNCHANGED cancelledDisplayed
    /\ UNCHANGED <<callback_events, callback_event_results,
                   user_message_callback_id, promptKind, message,
                   pending_message, prompt_messages, redisplays,
                   callback_queries, numReplies, replies, handled>>
    /\ UNCHANGED <<arbVars, rpcVars, pending_notices>>

\* The except CancelledError clause once message.delete() is over: False is
\* logged and the CancelledError re-raised; an error raised by the deletion
\* leaves the function in place of the CancelledError.
CancelDelete(p, out) ==
    /\ waitPc[p] = "cancelling"
    /\ out \in DeleteOutcomes(prompt_messages[p], message[p])
    /\ prompt_messages' = [prompt_messages EXCEPT ![p] = Deleted(@, message[p], out)]
    /\ waitPc' = [waitPc EXCEPT ![p] = "done"]
    /\ waitOutcome' = [waitOutcome EXCEPT ![p] =
           [kind |-> IF out = "raises" THEN "TelegramError" ELSE "CancelledError",
            value |-> NoResult]]
    /\ UNCHANGED <<callback_events, callback_event_results,
                   user_message_callback_id, promptKind, message,
                   pending_message, redisplays, callback_queries, numReplies,
                   replies, handled, cancelledDisplayed>>
    /\ UNCHANGED <<arbVars, rpcVars, pending_notices>>

\* The user taps a button of a displayed prompt: Telegram passes the
\* callback query, with the CallbackData of the button, on to the bot.
Tap(p, m, position) ==
    /\ promptKind[p] = "choice"
    /\ m \in Displayed(p)
    /\ numReplies < MaxReplies
    /\ numReplies' = numReplies + 1
    /\ callback_queries' = callback_queries \cup
           {[callback_id |-> p, msg |-> m, position |-> position]}
    /\ UNCHANGED <<callback_events, callback_event_results,
                   user_message_callback_id, promptKind, waitPc, message,
                   pending_message, prompt_messages, waitOutcome, redisplays,
                   replies, handled, cancelledDisplayed>>
    /\ UNCHANGED <<arbVars, rpcVars, pending_notices>>

\* Variant: the tap is taken to answer the prompt registered last.
CallbackIdOfLatestPrompt(query) ==
    CHOOSE p \in Prompts :
        /\ callback_events[p] # "absent"
        /\ \A q \in Prompts : callback_events[q] # "absent" => q <= p

\* cid = callback_data.callback_id: the id the tapped button carries.
CallbackId(query) == query.callback_id

\* handle_callback_query: the position is stored under the id, the event of
\* the id is set, and the tapped message (query.msg of the prompt it was
\* sent for) is deleted (not guarded).
HandleCallbackQuery(query, out) ==
    LET cid == CallbackId(query)
        value == [type |-> "int", value |-> query.position]
    IN  /\ query \in callback_queries
        /\ out \in DeleteOutcomes(prompt_messages[query.callback_id], query.msg)
        /\ callback_queries' = callback_queries \ {query}
        /\ callback_event_results' = StoreResult(callback_event_results, cid, value)
        /\ callback_events' = [callback_events EXCEPT ![cid] = "set"]
        /\ prompt_messages' = [prompt_messages EXCEPT
               ![query.callback_id] = Deleted(@, query.msg, out)]
        /\ replies' = replies \cup {[id |-> cid, value |-> value]}
        /\ handled' = [n |-> handled.n + 1, id |-> cid,
                       error |-> IF out = "raises" THEN "TelegramError" ELSE "none",
                       after |-> waitOutcome[query.callback_id].kind]
        /\ UNCHANGED <<user_message_callback_id, promptKind, waitPc, message,
                       pending_message, waitOutcome, redisplays, numReplies,
                       cancelledDisplayed>>
        /\ UNCHANGED <<arbVars, rpcVars, pending_notices>>

\* handle_message for a text message of the user: without a pointer the
\* message is ignored ("Unexpected message, ignoring..."); else the text is
\* stored under the id the pointer names and the event of that id is set.
HandleMessage(text) ==
    LET cid == user_message_callback_id
        value == [type |-> "str", value |-> text]
    IN  /\ numReplies < MaxReplies
        /\ numReplies' = numReplies + 1
        /\ handled' = [n |-> handled.n + 1, id |-> cid, error |-> "none",
                       after |-> IF cid = None THEN "none" ELSE waitOutcome[cid].kind]
        /\ IF cid = None
           THEN UNCHANGED <<callback_event_results, callback_events, replies>>
           ELSE /\ callback_event_results' = StoreResult(callback_event_results, cid, value)
                /\ callback_events' = [callback_events EXCEPT ![cid] = "set"]
                /\ replies' = replies \cup {[id |-> cid, value |-> value]}
        /\ UNCHANGED <<user_message_callback_id, promptKind, waitPc, message,
                       pending_message, prompt_messages, waitOutcome,
                       redisplays, callback_queries, cancelledDisplayed>>
        /\ UNCHANGED <<arbVars, rpcVars, pending_notices>>

RegistryNext ==
    \/ \E p \in Prompts : RequestUserChoice(p)
    \/ \E p \in Prompts : RequestUserInput(p)
    \/ \E p \in Prompts : SendMessageFn(p)
    \/ \E p \in Prompts : Wake(p)
    \/ \E p \in Prompts, out \in {"deleted", "raises"} : FinalDelete(p, out)
    \/ \E p \in Prompts : Expire(p)
    \/ \E p \in Prompts, out \in {"deleted", "false", "raises"} : ExpiredDelete(p, out)
    \/ \E p \in Prompts : CancelWaiter(p)
    \/ \E p \in Prompts, out \in {"deleted", "false", "raises"} : CancelDelete(p, out)
    \/ \E p \in Prompts, m \in 1..(MaxRedisplays + 1), position \in Positions :
           Tap(p, m, position)
    \/ \E query \in callback_queries, out \in {"deleted", "false", "raises"} :
           HandleCallbackQuery(query, out)
    \/ \E text \in Texts : HandleMessage(text)

RegistrySpec == Init /\ [][RegistryNext]_vars

RegistryTypeOK ==
    /\ callback_events \in [Prompts -> {"absent", "clear", "set"}]
    /\ callback_event_results \in [Prompts -> ResultValues \cup {NoResult}]
    /\ user_message_callback_id \in Prompts \cup {None}
    /\ promptKind \in [Prompts -> {"none", "choice", "input"}]
    /\ waitPc \in [Prompts -> {"idle", "send", "wait", "expired", "cancelling",
                               "final", "done"}]
    /\ \A p \in Prompts : message[p] \in 0..Len(prompt_messages[p])
    /\ \A p \in Prompts : Cardinality(Displayed(p)) <= 1
    /\ \A query \in callback_queries : callback_events[query.callback_id] # "absent"
    /\ user_message_callback_id # None =>
           callback_events[user_message_callback_id] # "absent"

\* ------------------------------------------------------------------ claims
InBody == {t \in Tasks : pc[t] = "body"}

\* A lease that sits in a queue with its event set was granted before and put
\* back by the preemption-check.
Requeued(l) == l \in Queued /\ event[l]

\* A task whose call ended by cancellation before its body was entered.
CancelledWaiting(u) == pc[u] = "done" /\ outcome[u] = "cancelled" /\ ~running[u]

\* C1: at most one task is inside a lease body (from the yield to the end of
\* the finally clause) at any instant.
C1_AtMostOneInBody == Cardinality(InBody) <= 1

\* The event and the running slot alone already serialize the bodies: no task
\* is ever suspended in Lock.acquire.
LockNeverContended == \A t \in Tasks : pc[t] # "lockwait"

C1_Witness ==
    \E t, u, v \in Tasks :
        /\ pc[t] = "body"
        /\ pc[u] = "waiting" /\ u \in Queued
        /\ pc[v] = "done" /\ outcome[v] = "preempted"

\* C2: when a task is cancelled while its lease waits (enqueued, body not
\* started), the caller sees CancelledError and the lease is no longer in a
\* queue once the CancelledError has left user_interaction.
C2_CancelledWhileWaitingIsDequeued ==
    [][\A t \in Tasks :
          (pc[t] = "waiting" /\ pc'[t] = "done")
              => (outcome'[t] = "cancelled" /\ t \notin Queued')]_vars

\* C3: a lease enqueued with a priority strictly more urgent than that of the
\* lease running its body preempts it: the running task is flagged preempted
\* and gets the cancellation.
C3_MoreUrgentEnqueuePreempts ==
    [][\A t \in Tasks :
          (/\ pc[t] = "idle" /\ pc'[t] # "idle"
           /\ current # None /\ pc[current] = "body"
           /\ priority'[t] < priority[current])
              => (preempted'[current] /\ mustCancel'[current])]_vars

\* C4: whenever a preemption action (cancel or re-enqueue) is taken on the
\* current lease, a lease of strictly more urgent priority is in a queue; so
\* leases of equal or lower priority alone never preempt the holder.
C4_PreemptionOnlyForMoreUrgent ==
    preemptLog.kind # "none" =>
        \E l \in Queued : priority[l] < priority[preemptLog.lease]

C4_Witness ==
    /\ preemptLog.kind = "cancel"
    /\ \E l \in Queued \ {preemptLog.lease} :
           priority[l] >= priority[preemptLog.lease]

\* C5: when a lease starts running its body, no lease waiting in a queue is
\* strictly more urgent, leases that were preempted and re-queued aside.
C5_BodyStartsMostUrgent ==
    [][\A t \in Tasks :
          (pc[t] # "body" /\ pc'[t] = "body")
              => \A l \in Queued' :
                     Requeued(l)' \/ priority'[t] <= priority'[l]]_vars

\* C6: of two leases of the same priority, the one enqueued first (the one
\* with the smaller number) is granted first.
C6_FifoWithinTier ==
    \A a, b \in Tasks :
        (/\ a < b
         /\ pc[b] # "idle"
         /\ priority[a] = priority[b]
         /\ b \in Range(grantOrder))
            => /\ a \in Range(grantOrder)
               /\ FirstIndex(grantOrder, a) < FirstIndex(grantOrder, b)

C6_Witness ==
    \E a, b \in Tasks :
        /\ a < b
        /\ priority[a] = priority[b]
        /\ Len(grantOrder) >= 3
        /\ grantOrder[2] = a
        /\ grantOrder[3] = b
        /\ priority[grantOrder[1]] <= priority[a]

\* C7: a body interrupted by preemption ends with UserInteractionPreempted and
\* one cancellation request undone when propagate_preemption is true, and with
\* a plain CancelledError, no request undone, when it is false.
C7_PreemptionSignal ==
    [][\A t \in Tasks :
          (pc[t] = "body" /\ pc'[t] = "done" /\ mustCancel[t] /\ preempted[t])
              => IF propagate[t]
                 THEN outcome'[t] = "preempted"
                      /\ numCancels'[t] = numCancels[t] - 1
                 ELSE outcome'[t] = "cancelled"
                      /\ numCancels'[t] = numCancels[t]]_vars

C7_Witness ==
    \E t \in Tasks :
        /\ pc[t] = "done" /\ preempted[t] /\ propagate[t]
        /\ outcome[t] = "preempted" /\ numCancels[t] = 0

\* C8: whenever a body exits, however it exits, the running slot is cleared
\* and, if a lease is queued, the front lease of the most urgent non-empty
\* tier is taken from its queue, put in the slot and woken.
C8_ExitClearsAndGrants ==
    [][\A t \in Tasks :
          (pc[t] = "body" /\ pc'[t] = "done")
              => IF \A p \in UserInteractionPriority : queues[p] = <<>>
                 THEN current' = None /\ queues' = queues
                 ELSE \E p \in UserInteractionPriority :
                          /\ queues[p] # <<>>
                          /\ \A p2 \in 1..(p - 1) : queues[p2] = <<>>
                          /\ current' = queues[p][1]
                          /\ event'[queues[p][1]]
                          /\ queues' = [queues EXCEPT ![p] = Tail(queues[p])]]_vars

C8_Witness ==
    \E t \in Tasks :
        /\ pc[t] = "done" /\ outcome[t] \in {"cancelled", "preempted"} /\ running[t]
        /\ current \notin {None, t}
        /\ pc[current] = "waiting" /\ event[current]

\* C9: with fair scheduling, terminating bodies and no cancellation other than
\* preemption, no call waits forever for its turn (every waiting call gets to
\* run its body or ends), and the running slot does not stay occupied by the
\* lease of a task that has left user_interaction.
C9_EveryCallServed ==
    /\ \A t \in Tasks : (pc[t] = "waiting") ~> (pc[t] \in {"body", "done"})
    /\ \A l \in Tasks : []<>(~(current = l /\ pc[l] = "done"))

\* C10: once a task has been cancelled while waiting for its turn, every lease
\* another task acquires afterwards is still eventually granted.
C10_ServesAfterCancelledWaiter ==
    \A t, u \in Tasks :
        []((pc[t] = "idle" /\ CancelledWaiting(u))
               => [](pc[t] = "waiting" => <>(event[t] \/ pc[t] = "done")))

C13_OnlyPreemptionRaisesPreempted ==
    \A t \in Tasks :
        outcome[t] = "preempted"
            => (preempted[t] /\ running[t] /\ interruptedBy[t] = "preemption")

\* The arbitrator is idle: nothing in the slot, nothing queued.
ArbitratorIdle == current = None /\ AllEmpty(queues)

\* C14: on an idle arbitrator a call is granted within the call itself (no
\* other task acts) and its task is in the body with its lease in the slot;
\* when that body exits and nothing was queued meanwhile the arbitrator is
\* idle again; the body of a lease is entered at most once.
C14_IdleCallRunsAtOnce ==
    [][\A t \in Tasks :
          /\ (pc[t] = "idle" /\ pc'[t] # "idle" /\ ArbitratorIdle)
                 => (pc'[t] = "body" /\ current' = t /\ AllEmpty(queues'))
          /\ (pc[t] = "body" /\ pc'[t] = "done" /\ current = t /\ AllEmpty(queues))
                 => ArbitratorIdle'
          /\ (pc[t] = "done" => pc'[t] = "done")]_vars

C14_Witness ==
    /\ pc[1] = "done" /\ outcome[1] = "returned"
    /\ grantOrder = <<1>>
    /\ ArbitratorIdle
    /\ \A t \in Tasks : t # 1 => pc[t] = "idle"

\* The requests of call c that are in the outbound list.
InOutbound(c) == {i \in 1..Len(outbound) : outbound[i].call = c}

RemoteErrorKinds == {"FileNotFoundError", "FileExistsError", "RuntimeError"}

\* C15: when blpop returns a response with success true from the list of the
\* current attempt's request_id, _send_request returns its result, and the
\* call pushes nothing on the outbound list in that step or afterwards.
C15_SuccessReturnsResult ==
    [][\A c \in Calls :
          /\ (/\ rpcPc[c] = "wait"
              /\ response'[c] # response[c]
              /\ response'[c][1].success)
                 => /\ response'[c][1] = Head(responseQ[request_id[c]])
                    /\ rpcPc'[c] = "done"
                    /\ rpcOutcome'[c] =
                           [kind |-> "returned", value |-> response'[c][1].result]
                    /\ pushed'[c] = pushed[c]
          /\ rpcOutcome[c].kind = "returned"
                 => /\ rpcOutcome'[c] = rpcOutcome[c]
                    /\ pushed'[c] = pushed[c]
                    /\ InOutbound(c)' \subseteq InOutbound(c)]_vars

C15_Witness ==
    \E c \in Calls :
        /\ rpcOutcome[c] = [kind |-> "returned", value |-> <<"X">>]
        /\ attempt[c] = 2
        /\ response[c][1].for.request_id = request_id[c]

\* C16: if no response ever arrives, a call that has started ends with
\* ObsidianApiTimeoutError after exactly max_attempts pushes, each with a
\* request_id distinct from those of the earlier attempts, and pushes nothing
\* after it has ended.
C16_SilentCompanionThreeAttempts ==
    /\ \A c \in Calls :
           (rpcPc[c] # "idle")
               ~> (/\ rpcPc[c] = "done"
                   /\ rpcOutcome[c].kind = "ObsidianApiTimeoutError"
                   /\ Len(pushed[c]) = max_attempts)
    /\ [](\A c \in Calls : \A i, j \in 1..Len(pushed[c]) :
              i # j => pushed[c][i] # pushed[c][j])
    /\ [](\A c \in Calls : Len(pushed[c]) <= max_attempts)
    /\ [][\A c \in Calls : rpcPc[c] = "done" =>
              (pushed'[c] = pushed[c] /\ rpcPc'[c] = "done")]_vars

C16_Witness ==
    \E c \in Calls :
        /\ rpcOutcome[c].kind = "ObsidianApiTimeoutError"
        /\ Len(pushed[c]) = max_attempts
        /\ response[c] = <<>>

\* C17: at most one request of a call is in the outbound list at any time;
\* between an attempt's timeout and the push of the next attempt none is;
\* none is when the call has raised ObsidianApiTimeoutError.
C17_StaleRequestRemoved ==
    \A c \in Calls :
        /\ Cardinality(InOutbound(c)) <= 1
        /\ \A i \in InOutbound(c) :
               /\ outbound[i].request_id = request_id[c]
               /\ outbound[i].attempt = attempt[c]
        /\ rpcPc[c] = "retry" => InOutbound(c) = {}
        /\ rpcOutcome[c].kind = "ObsidianApiTimeoutError" => InOutbound(c) = {}

C17_Witness ==
    \E c \in Calls :
        /\ rpcPc[c] = "wait" /\ attempt[c] = 2
        /\ \E i \in InOutbound(c) : outbound[i].attempt = 2
        /\ taken = {}

\* C18: the response a call takes as its outcome was pushed for the request of
\* the call's current attempt: never for an attempt of the call that had
\* timed out, never for a request of another call.
C18_LateResponseNeverUsed ==
    \A c \in Calls :
        response[c] # <<>> =>
            /\ response[c][1].for.call = c
            /\ response[c][1].for.attempt = attempt[c]

C18_Witness ==
    \E c \in Calls :
        /\ attempt[c] >= 2
        /\ responseQ[pushed[c][1]] # <<>>
        /\ response[c] # <<>>
        /\ rpcPc[c] = "done"

C20_FailureAlwaysRaisesRemoteError ==
    \A c \in Calls :
        (response[c] # <<>> /\ ~response[c][1].success)
            => /\ rpcPc[c] \in {"notify", "done"}
               /\ rpcPc[c] = "done" => rpcOutcome[c].kind \in RemoteErrorKinds

\* C28: a lease that was granted and put back in its queue by the
\* preemption-check is not running and its task is not in the body as long as
\* the lease sits in the queue: the body starts only after a new grant.
C28_RequeuedLeaseNotRunning ==
    \A l \in Tasks :
        Requeued(l) => (~running[l] /\ pc[l] # "body")

\* The progress messages of call c that Telegram still shows.
Shown(c) == {m \in 1..Len(messages[c]) : messages[c][m].shown}

\* C21: once _send_request has ended (returned, raised, or was cancelled) its
\* progress task is cancelled, and no progress message of the call is sent or
\* edited afterwards.
C21_ProgressTaskCancelledAtEnd ==
    [][\A c \in Calls :
          rpcPc[c] = "done"
              => /\ progress[c] \in {"none", "cancelled"}
                 /\ messages'[c] = messages[c]]_vars

\* C22: when a call stops waiting for an attempt without having received its
\* response (timeout, or cancellation of the caller), the request of that
\* attempt is not in the outbound list afterwards.
C22_AbandonedRequestRemoved ==
    [][\A c \in Calls :
          (rpcPc[c] = "wait" /\ rpcPc'[c] # "wait" /\ response'[c] = response[c])
              => InOutbound(c)' = {}]_vars

\* C29: after _send_request has returned a result, Telegram shows no progress
\* message of that call, whenever the response arrived relative to the steps
\* of the progress task.
C29_NoProgressMessageAfterSuccess ==
    \A c \in Calls :
        rpcOutcome[c].kind = "returned" => Shown(c) = {}

\* C30: when a call has ended with ObsidianApiTimeoutError, the progress
\* message it holds, if any, carries the failure text, and every progress
\* message of the call that is shown is eventually removed.
C30_FailedIndicatorRemoved ==
    \A c \in Calls :
        /\ []((rpcOutcome[c].kind = "ObsidianApiTimeoutError"
                  /\ progress_message[c] # None)
                 => messages[c][progress_message[c]].text = FailureText)
        /\ (rpcOutcome[c].kind = "ObsidianApiTimeoutError" /\ Shown(c) # {})
               ~> (Shown(c) = {})

\* How wait_for_user_interaction ended for the id, when it has ended.
Ended(p, kinds) == waitPc[p] = "done" /\ waitOutcome[p].kind \in kinds

\* C23: the registry holds an entry for a correlation id (event, result,
\* text-reply pointer) only while its prompt is outstanding: once
\* wait_for_user_interaction has returned or has been cancelled, the id is
\* not registered any more.
C23_EntryOnlyWhileOutstanding ==
    \A p \in Prompts :
        Ended(p, {"returned", "CancelledError"}) =>
            /\ callback_events[p] = "absent"
            /\ callback_event_results[p] = NoResult
            /\ user_message_callback_id # p

\* C24: whenever the event of an id is set a result is stored for the id, so
\* the woken waiter finds a value (no KeyError), and the value it returns is
\* that of a reply stored under its own id: a button position for a choice
\* prompt, a text for an input prompt.
C24_EventSetImpliesResultStored ==
    \A p \in Prompts :
        /\ callback_events[p] = "set" => callback_event_results[p] # NoResult
        /\ waitOutcome[p].kind # "KeyError"
        /\ waitOutcome[p].kind = "returned" =>
               /\ [id |-> p, value |-> waitOutcome[p].value] \in replies
               /\ waitOutcome[p].value.type =
                      (IF promptKind[p] = "choice" THEN "int" ELSE "str")

\* A choice prompt and an input prompt have both returned, each its own reply.
C24_Witness ==
    \E p, q \in Prompts :
        /\ Ended(p, {"returned"}) /\ promptKind[p] = "choice"
        /\ Ended(q, {"returned"}) /\ promptKind[q] = "input"
        /\ callback_event_results[p] # callback_event_results[q]

\* C25: a reply for a registered id whose waiter is no longer waiting
\* (cancelled or returned) is handled without error and neither sets the
\* event nor changes the result of any other id.
C25_LateReplyHandledQuietly ==
    [][\A p \in Prompts :
           (/\ handled'.n # handled.n
            /\ handled'.id = p
            /\ callback_events[p] # "absent"
            /\ Ended(p, {"returned", "CancelledError"}))
           => /\ handled'.error = "none"
              /\ \A q \in Prompts \ {p} :
                     /\ callback_events'[q] = callback_events[q]
                     /\ callback_event_results'[q] = callback_event_results[q]]_vars

\* C26: expiry of the re-display interval never ends the wait: the displayed
\* prompt is deleted and the prompt is sent again under the same id; the
\* wait ends only by a return or by the cancellation of the caller.
C26_ExpiryOnlyRedisplays ==
    [][\A p \in Prompts :
           (waitPc[p] = "expired" /\ waitPc'[p] # "expired")
           => \/ /\ waitPc'[p] = "send"
                 /\ Displayed(p)' = {}
                 /\ callback_events'[p] = callback_events[p]
              \/ waitPc'[p] = "cancelling"
              \/ Ended(p, {"returned", "CancelledError"})']_vars

\* C27: when the caller is cancelled while a prompt message is displayed,
\* the deletion of the message is attempted and then the cancellation
\* propagates, whatever the deletion does.
C27_CancellationAlwaysPropagates ==
    \A p \in Prompts :
        (cancelledDisplayed[p] /\ waitPc[p] = "done") =>
            waitOutcome[p].kind = "CancelledError"

\* The pending-interactions notices of the wait that are displayed.
DisplayedNotices(p) == {i \in 1..Len(pending_notices[p]) : pending_notices[p][i]}

\* C31: at most one "You have N pending interactions" notice of a wait is
\* displayed at a time, and none is displayed once wait_for_user_interaction
\* has ended, by a return or by a cancellation.
C31_PendingNoticeTransient ==
    \A p \in Prompts :
        /\ Cardinality(DisplayedNotices(p)) <= 1
        /\ Ended(p, {"returned", "CancelledError"}) => DisplayedNotices(p) = {}

\* An input prompt is awaiting a reply.
InputPromptAwaiting ==
    \E p \in Prompts :
        promptKind[p] = "input" /\ waitPc[p] \in {"send", "wait", "expired"}

\* C36: a text message that arrives while no input prompt is awaiting a reply
\* is ignored ("Unexpected message, ignoring..."): it is stored under no id,
\* changes no result and sets no event, also after an earlier input prompt
\* was answered or abandoned.
C36_UnexpectedTextIgnored ==
    [][(/\ numReplies' # numReplies
        /\ handled'.n # handled.n
        /\ ~InputPromptAwaiting)
       => /\ handled'.id = None
          /\ callback_event_results' = callback_event_results
          /\ callback_events' = callback_events]_vars

\* C37: a tap on the message of a prompt whose waiter was cancelled is stored
\* under the id of that prompt only: it neither sets the event nor changes
\* the result of any other prompt, a later one included.
C37_AbandonedTapResolvesNothingElse ==
    [][\A p \in Prompts :
           (/\ handled'.n # handled.n
            /\ numReplies' = numReplies
            /\ handled'.after = "CancelledError"
            /\ \E query \in callback_queries \ callback_queries' :
                   query.callback_id = p)
           => /\ handled'.id = p
              /\ \A q \in Prompts \ {p} :
                     /\ callback_events'[q] = callback_events[q]
                     /\ callback_event_results'[q] = callback_event_results[q]]_vars

\* A tap on the message of a cancelled prompt was handled while a prompt
\* issued later was waiting, and the later prompt is still waiting.
C37_Witness ==
    \E p, q \in Prompts :
        /\ p < q
        /\ handled.id = p /\ handled.after = "CancelledError"
        /\ Ended(p, {"CancelledError"})
        /\ promptKind[q] = "choice" /\ waitPc[q] = "wait"
        /\ callback_events[q] = "clear"
        /\ callback_event_results[q] = NoResult

\* C39: when request_user_choice has returned the user's choice, no message
\* with the buttons of the prompt is displayed, however the tap, the expiry
\* of the re-display interval and the re-sending interleave.
C39_NoButtonsLeftAfterChoice ==
    \A p \in Prompts :
        (promptKind[p] = "choice" /\ Ended(p, {"returned"})) => Displayed(p) = {}

\* C32: a failure response is classified by substring of its error text:
\* a text containing "not found" raises the not-found kind, one containing
\* "already exists" the already-exists kind, every other the generic kind.
C32_ClassifiedBySubstring ==
    \A c \in Calls :
        (/\ rpcPc[c] = "done"
         /\ response[c] # <<>>
         /\ ~response[c][1].success
         /\ rpcOutcome[c].kind \in RemoteErrorKinds)
            => LET text == response[c][1].result
               IN  rpcOutcome[c].kind =
                       IF Contains(text, <<"not", "found">>)
                       THEN "FileNotFoundError"
                       ELSE IF Contains(text, <<"already", "exists">>)
                            THEN "FileExistsError"
                            ELSE "RuntimeError"

\* The requests of call c the companion has popped from the outbound list:
\* those it is serving and those it has answered.
Serviced(c) ==
    {e.request_id : e \in {x \in taken : x.call = c}}
        \cup {i \in RequestIds :
                 \E r \in Range(responseQ[i]) \cup Range(response[c]) :
                     r.for.call = c /\ r.for.request_id = i}

\* C38: the companion services at most one request of a call, however its
\* taking of requests interleaves with the call's timeouts and retries.
C38_AtMostOneRequestServiced ==
    \A c \in Calls : Cardinality(Serviced(c)) <= 1

\* C34: the lease in the running slot is in none of the tier queues, and no
\* lease is put in the running slot more than once.
C34_SlotHolderNotQueued ==
    /\ current # None => current \notin Queued
    /\ \A i, j \in 1..Len(grantOrder) : grantOrder[i] = grantOrder[j] => i = j

\* C35: a task that calls user_interaction inside the body of its own lease
\* eventually enters the inner body, and the preemption check of the inner
\* call never cancels the task that is making the call.
C35_NestedCallEntersInnerBody ==
    /\ \A n \in Tasks :
           (task[n] # n /\ pc[n] \in {"waiting", "lockwait"}) ~> (pc[n] = "body")
    /\ [](\A n \in Tasks :
              ~(/\ task[n] # n
                /\ preemptLog.kind = "cancel"
                /\ preemptLog.by = n
                /\ task[preemptLog.lease] = task[n]))

\* The leases of user v that have been created.
LeasesOf(v) == {l \in Tasks : pc[l] # "idle" /\ user_id[l] = v}

\* C33: arbitration is per user.  A step of a task of user u (a call, a
\* resumption, the end of a body) leaves the queues, the running slot and
\* the lock of every other user as they are and neither grants, preempts nor
\* cancels a lease of another user; and a call of a user whose slot and
\* queues are empty enters its body at once, whatever other users hold.
C33_ArbitrationPerUser ==
    [][\A t \in Tasks :
           pc'[t] # pc[t] =>
               /\ \A v \in Users \ {user_id'[t]} :
                      /\ user_interaction_queues'[v] = user_interaction_queues[v]
                      /\ current_user_interaction'[v] = current_user_interaction[v]
                      /\ user_interaction_locks'[v] = user_interaction_locks[v]
                      /\ \A l \in LeasesOf(v) :
                             /\ event'[l] = event[l]
                             /\ preempted'[l] = preempted[l]
                             /\ mustCancel'[l] = mustCancel[l]
                             /\ running'[l] = running[l]
               /\ (/\ pc[t] = "idle"
                   /\ current_user_interaction[user_id'[t]] = None
                   /\ AllEmpty(user_interaction_queues[user_id'[t]]))
                  => pc'[t] = "body"]_vars

\* Leases of two users are in their bodies at the same time, and a third
\* lease waits behind one of them.
C33_Witness ==
    \E t, u, w \in Tasks :
        /\ pc[t] = "body" /\ pc[u] = "body" /\ pc[w] = "waiting"
        /\ user_id[t] # user_id[u]
        /\ current_user_interaction[user_id[t]] = t
        /\ current_user_interaction[user_id[u]] = u
====
